---------------------------- MODULE Spec2Model ----------------------------
(***************************************************************************)
(* A model of the workshop runner `wr`: the exercise definitions and their *)
(* order (src/src/lib.rs), the discovered set and the progress store kept  *)
(* in SQLite (src/src/lib.rs), and the verification pipeline and default   *)
(* run of the command line tool (src/src/main.rs).                         *)
(*                                                                         *)
(* Directory names and the strings stored in the database are sequences of *)
(* one-character strings, so that parsing and formatting are computed.     *)
(* Option<T> is a set with at most one element: {} is None, {x} is Some(x).*)
(***************************************************************************)
EXTENDS Integers, Sequences, FiniteSets, TLC

(***************************************************************************)
(* Bounds of the model.                                                    *)
(***************************************************************************)
\* The largest number of (chapter directory, entry) pairs on disk.
MaxEntries == 2

\* The largest number of open_next() results the history keeps.
MaxHistory == MaxEntries + 2

\* The largest number of bytes a child process writes.
MaxWrites == 3

\* The capacity of a pipe, in bytes.
PipeCap == 2

\* The size of a reader's buffer ([0u8; 4096] in the code), in bytes.
ChunkSize == 2

(***************************************************************************)
(* Directory names.                                                        *)
(***************************************************************************)
\* The (chapter directory, entry) pairs a directory tree is drawn from: two
\* chapters with the same number, a second chapter number, two exercise
\* numbers, and the two ill-formed entry names.
DiskPairs ==
    { << <<"0", "1", "_", "a">>, <<"0", "0", "_", "x">> >>,
      << <<"0", "1", "_", "a">>, <<"0", "1", "_", "x">> >>,
      << <<"0", "1", "_", "b">>, <<"0", "0", "_", "x">> >>,
      << <<"0", "2", "_", "a">>, <<"0", "0", "_", "x">> >>,
      << <<"0", "1", "_", "a">>, <<"x", "0", "1", "_", "x">> >>,
      << <<"0", "2", "_", "a">>, <<"y">> >> }

(***************************************************************************)
(* ExerciseDefinition::new and its regex, (?P<number>\d{2})_(?P<name>\w+). *)
(***************************************************************************)
IsDigit(c) == c \in {"0", "1", "2", "3", "4", "5", "6", "7", "8", "9"}

\* \w: letters, digits and the underscore.
IsWord(c) == IsDigit(c) \/ c \in {"a", "b", "x", "y", "_"}

DigitVal(c) ==
    CASE c = "0" -> 0 [] c = "1" -> 1 [] c = "2" -> 2 [] c = "3" -> 3
      [] c = "4" -> 4 [] c = "5" -> 5 [] c = "6" -> 6 [] c = "7" -> 7
      [] c = "8" -> 8 [] c = "9" -> 9

DigitChar(n) ==
    CASE n = 0 -> "0" [] n = 1 -> "1" [] n = 2 -> "2" [] n = 3 -> "3"
      [] n = 4 -> "4" [] n = 5 -> "5" [] n = 6 -> "6" [] n = 7 -> "7"
      [] n = 8 -> "8" [] n = 9 -> "9"

\* The regex matches at position i: two digits, an underscore, a word character.
MatchAt(s, i) ==
    /\ i + 3 <= Len(s)
    /\ IsDigit(s[i])
    /\ IsDigit(s[i + 1])
    /\ s[i + 2] = "_"
    /\ IsWord(s[i + 3])

\* The last position of the run of word characters that starts at i (\w+ is greedy).
WordEnd(s, i) ==
    CHOOSE j \in i..Len(s) :
        /\ \A k \in i..j : IsWord(s[k])
        /\ (j = Len(s) \/ ~IsWord(s[j + 1]))

\* parse: Regex::captures searches the string (the pattern is not anchored) and
\* takes the leftmost match. Some([name, number]) or None.
parse(s) ==
    LET starts == {i \in 1..Len(s) : MatchAt(s, i)}
    IN  IF starts = {}
        THEN {}
        ELSE LET i == CHOOSE m \in starts : \A n \in starts : m <= n
             IN  { [name   |-> SubSeq(s, i + 3, WordEnd(s, i + 3)),
                    number |-> 10 * DigitVal(s[i]) + DigitVal(s[i + 1])] }

\* ExerciseDefinition::new: both names must parse.
NewDefinition(chapter_dir_name, exercise_dir_name) ==
    { [chapter_name   |-> c.name,
       chapter_number |-> c.number,
       name           |-> e.name,
       number         |-> e.number] :
        <<c, e>> \in parse(chapter_dir_name) \X parse(exercise_dir_name) }

\* format!("{}_{}", number, name): the number without its padding (a mutant).
Fmt_unpadded(number, name) ==
    (IF number < 10
     THEN <<DigitChar(number)>>
     ELSE <<DigitChar(number \div 10), DigitChar(number % 10)>>) \o <<"_">> \o name

\* format!("{:02}_{}", number, name) for a number below 100.
Fmt02(number, name) ==
    <<DigitChar(number \div 10), DigitChar(number % 10), "_">> \o name

chapter(d) == Fmt02(d.chapter_number, d.chapter_name)

exercise(d) == Fmt02(d.number, d.name)

\* The key of an exercise's row in open_exercises.
Key(d) == <<chapter(d), exercise(d)>>

(***************************************************************************)
(* The order of definitions: chapter number, then exercise number.         *)
(***************************************************************************)
\* Ord::cmp: -1, 0 or 1.
cmp(a, b) ==
    IF a.chapter_number < b.chapter_number THEN -1
    ELSE IF a.chapter_number > b.chapter_number THEN 1
    ELSE IF a.number < b.number THEN -1
    ELSE IF a.number > b.number THEN 1
    ELSE 0

\* BTreeSet::contains looks its argument up with Ord::cmp.
Contains(set, d) == \E e \in set : cmp(e, d) = 0

\* The sets a BTreeSet can hold after collecting `items`: one element of each
\* class of elements that compare equal (which one depends on the order in
\* which the items arrive and on the standard library's collect).
Collect(items) ==
    { T \in SUBSET items :
        /\ \A x \in items : \E y \in T : cmp(x, y) = 0
        /\ \A x, y \in T : cmp(x, y) = 0 => x = y }

\* The first element of an ordered set, if any.
First(set) == { d \in set : \A e \in set : cmp(d, e) <= 0 }

(***************************************************************************)
(* The state: the exercises directory, the collection built from it, and   *)
(* the open_exercises table.                                               *)
(***************************************************************************)
VARIABLES
    disk,       \* the (chapter directory name, entry name) pairs on disk
    cfg,        \* the collection's .wr.toml: [verification, skip_build]
    excfg,      \* the .wr.toml of the exercise folders: [file, verification]
    exercises,  \* ExerciseCollection::exercises, a BTreeSet<ExerciseDefinition>
    store,      \* open_exercises: (chapter, exercise) -> solved
    last,       \* the last call on the collection and what it returned
    returned,   \* the definitions returned by the successful open_next() calls
    pc,         \* where main() is: "idle", "seek", "verify", "persist", "loop", "done"
    args,       \* the command line: [command, recheck, keep_going, verbose]
    queue,      \* seek_the_path: the opened exercises still to iterate
    cur,        \* verify: the definition being verified (Option)
    ret,        \* verify: who called it, "check", "seek" or "loop"
    plan,       \* _verify: the command lines of this run, in order
    ran,        \* _verify: the commands executed so far, [cmd, status]
    outcome,    \* verify: the TestOutcome of the run (Option)
    runs,       \* the verifications of this invocation, [def, from, before, outcome]
    exit,       \* how the process ended: "", "ok", "exit1", "error", "panic"
    script,     \* run_and_capture: the writes the child has still to make
    child,      \* the child process: "none", "running" or "exited"
    written,    \* the bytes the child has written, per stream
    pipe,       \* the bytes in each pipe, written and not yet read
    reader,     \* the reader thread of each stream: [pc, chunk]
    forwarded,  \* the bytes written to the parent's stdout and stderr
    captured,   \* stdout_buf and stderr_buf
    parent,     \* where run_and_capture is: "idle", "wait", "join_out", "join_err", "returned"
    result      \* what run_and_capture has returned (Option)

collVars == <<disk, cfg, excfg, exercises, store>>

callVars == <<last, returned>>

mainVars == <<pc, args, queue, cur, ret, plan, ran, outcome, runs, exit>>

teeVars ==
    <<script, child, written, pipe, reader, forwarded, captured, parent, result>>

vars == <<collVars, callVars, mainVars, teeVars>>

\* The two streams of a child process.
Streams == {"out", "err"}

\* run_and_capture is not running.
TeeIdle ==
    /\ script = <<>>
    /\ child = [state |-> "none", code |-> 0]
    /\ written = [s \in Streams |-> <<>>]
    /\ pipe = [s \in Streams |-> <<>>]
    /\ reader = [s \in Streams |-> [pc |-> "idle", chunk |-> <<>>]]
    /\ forwarded = [s \in Streams |-> <<>>]
    /\ captured = [s \in Streams |-> <<>>]
    /\ parent = "idle"
    /\ result = {}

\* The directory trees the exercises directory may hold.
Disks ==
    { d \in SUBSET DiskPairs : Cardinality(d) <= MaxEntries }

\* The definitions the collection is called with: those ExerciseDefinition::new
\* builds from the names of the pairs above, on disk or not.
Definitions ==
    UNION { NewDefinition(p[1], p[2]) : p \in DiskPairs }

\* ExerciseCollection::new: the sets `exercises` can be for a directory tree.
\* Entries that do not parse are dropped by filter_map(.. .ok()).
Discover(d) ==
    Collect(UNION { NewDefinition(p[1], p[2]) : p \in d })

EmptyStore == [k \in {} |-> FALSE]

(***************************************************************************)
(* The operations of ExerciseCollection, as functions of the table.        *)
(***************************************************************************)
\* The definition opened_exercises rebuilds from a row, None if the row's
\* strings do not parse (the code panics there).
RowDefinition(k) == NewDefinition(k[1], k[2])

\* The sets opened_exercises can return. OpenedExercise is ordered by the
\* numbers of its definition and compared with == on every field: of the rows
\* whose definitions compare equal without being equal a BTreeSet keeps at
\* least one, and which of them it keeps is not specified.
opened_exercises(st) ==
    LET rows == UNION { { [definition |-> d, solved |-> st[k]] :
                            d \in RowDefinition(k) } : k \in DOMAIN st }
    IN  { T \in SUBSET rows :
            \A x \in rows : \E y \in T : cmp(x.definition, y.definition) = 0 }

\* n_opened(): SELECT COUNT(*) FROM open_exercises
n_opened(st) == Cardinality(DOMAIN st)

\* The definitions of the rows of the table.
OpenedDefinitions(st) == UNION { RowDefinition(k) : k \in DOMAIN st }

\* next() that takes the last element of the difference (a mutant).
next_back(ex, st) ==
    LET left == { d \in ex : ~Contains(OpenedDefinitions(st), d) }
    IN  { d \in left : \A e \in left : cmp(d, e) >= 0 }

\* next(): the first element of exercises.difference(&opened), where opened
\* holds one definition of each class of row definitions that compare equal.
\* The difference looks elements up with Ord::cmp, so it is the same whichever
\* definition stands for a class: the lookup is made in all the row definitions.
next(ex, st) ==
    First({ d \in ex : ~Contains(OpenedDefinitions(st), d) })

\* mark_as_solved that flips the flag of the row (a mutant).
mark_as_solved_toggle(st, d) ==
    IF Key(d) \in DOMAIN st THEN [st EXCEPT ![Key(d)] = ~st[Key(d)]] ELSE st

\* mark_as_solved that creates the row when there is none (a mutant).
mark_as_solved_upsert(st, d) ==
    [k \in DOMAIN st \cup {Key(d)} |-> IF k = Key(d) THEN TRUE ELSE st[k]]

\* UPDATE open_exercises SET solved = 1 WHERE chapter = ?1 AND exercise = ?2
mark_as_solved(st, d) ==
    IF Key(d) \in DOMAIN st THEN [st EXCEPT ![Key(d)] = TRUE] ELSE st

\* mark_as_unsolved that deletes the row (a mutant).
mark_as_unsolved_delete(st, d) ==
    [k \in DOMAIN st \ {Key(d)} |-> st[k]]

\* UPDATE open_exercises SET solved = 0 WHERE chapter = ?1 AND exercise = ?2
mark_as_unsolved(st, d) ==
    IF Key(d) \in DOMAIN st THEN [st EXCEPT ![Key(d)] = FALSE] ELSE st

\* INSERT OR REPLACE: the row is reset when it exists (a mutant of the insert).
insert_or_replace(st, d) ==
    [k \in DOMAIN st \cup {Key(d)} |-> IF k = Key(d) THEN FALSE ELSE st[k]]

\* INSERT OR IGNORE INTO open_exercises (chapter, exercise, solved) VALUES (?1, ?2, 0)
insert_or_ignore(st, d) ==
    IF Key(d) \in DOMAIN st THEN st ELSE st @@ (Key(d) :> FALSE)

\* open(): [ok, err, store].
open(ex, st, d) ==
    IF ~Contains(ex, d)
    THEN [ok |-> FALSE, err |-> "doesn't exist", store |-> st]
    ELSE [ok |-> TRUE, err |-> "", store |-> insert_or_ignore(st, d)]

\* open_next() that returns the next exercise without opening it (a mutant).
open_next_without_open(ex, st) ==
    LET n == next(ex, st)
    IN  [ok |-> n # {}, err |-> IF n = {} THEN "no more" ELSE "", val |-> n,
         store |-> st]

\* open_next() that starts again from the first exercise when none is left
\* (a mutant).
open_next_wrap(ex, st) ==
    LET n == IF next(ex, st) = {} THEN First(ex) ELSE next(ex, st)
    IN  IF n = {}
        THEN [ok |-> FALSE, err |-> "no more", val |-> {}, store |-> st]
        ELSE [ok |-> TRUE, err |-> "", val |-> n,
              store |-> insert_or_replace(st, CHOOSE d \in n : TRUE)]

\* open_next(): [ok, err, val, store], val the definition returned.
open_next(ex, st) ==
    LET n == next(ex, st)
    IN  IF n = {}
        THEN [ok |-> FALSE, err |-> "no more", val |-> {}, store |-> st]
        ELSE CHOOSE res \in { [ok |-> r.ok, err |-> r.err,
                                 val |-> IF r.ok THEN n ELSE {},
                                 store |-> r.store] :
                                    r \in { open(ex, st, d) : d \in n } } : TRUE

(***************************************************************************)
(* The collection's life: built over a directory tree with an empty table, *)
(* then called in any order.                                               *)
(***************************************************************************)
\* No command line is running.
MainIdle ==
    /\ pc = "idle"
    /\ args = [command |-> "", recheck |-> FALSE, keep_going |-> FALSE,
               verbose |-> FALSE]
    /\ queue = {}
    /\ cur = {}
    /\ ret = ""
    /\ plan = <<>>
    /\ ran = <<>>
    /\ outcome = {}
    /\ runs = <<>>
    /\ exit = ""

\* No call has been made on the collection.
NoCall ==
    /\ last = [op |-> "new", arg |-> {}, ok |-> TRUE, err |-> "", val |-> {}]
    /\ returned = <<>>

Init ==
    /\ disk \in Disks
    /\ cfg = [verification |-> <<>>, skip_build |-> FALSE]
    /\ excfg = [file |-> "none", verification |-> <<>>]
    /\ exercises \in Discover(disk)
    /\ store = EmptyStore
    /\ NoCall
    /\ MainIdle
    /\ TeeIdle

Open(d) ==
    LET r == open(exercises, store, d)
    IN  /\ store' = r.store
        /\ last' = [op |-> "open", arg |-> {d}, ok |-> r.ok, err |-> r.err,
                    val |-> {}]
        /\ UNCHANGED <<disk, cfg, excfg, exercises, returned, mainVars>>
        /\ UNCHANGED teeVars

OpenNext ==
    LET r == open_next(exercises, store)
    IN  /\ Len(returned) < MaxHistory
        /\ store' = r.store
        /\ last' = [op |-> "open_next", arg |-> {}, ok |-> r.ok, err |-> r.err,
                    val |-> r.val]
        /\ returned' = IF r.ok
                       THEN Append(returned, CHOOSE d \in r.val : TRUE)
                       ELSE returned
        /\ UNCHANGED <<disk, cfg, excfg, exercises, mainVars>>
        /\ UNCHANGED teeVars

MarkAsSolved(d) ==
    /\ store' = mark_as_solved(store, d)
    /\ last' = [op |-> "mark_as_solved", arg |-> {d}, ok |-> TRUE, err |-> "",
                val |-> {}]
    /\ UNCHANGED <<disk, cfg, excfg, exercises, returned, mainVars>>
    /\ UNCHANGED teeVars

MarkAsUnsolved(d) ==
    /\ store' = mark_as_unsolved(store, d)
    /\ last' = [op |-> "mark_as_unsolved", arg |-> {d}, ok |-> TRUE, err |-> "",
                val |-> {}]
    /\ UNCHANGED <<disk, cfg, excfg, exercises, returned, mainVars>>
    /\ UNCHANGED teeVars

Next ==
    \/ \E d \in Definitions : Open(d)
    \/ OpenNext
    \/ \E d \in Definitions : MarkAsSolved(d)
    \/ \E d \in Definitions : MarkAsUnsolved(d)

Spec == Init /\ [][Next]_vars

(***************************************************************************)
(* The command line tool: main() and the verification pipeline.            *)
(***************************************************************************)
\* The verification steps the configuration files are drawn from.
V1 == [command |-> "v1", args |-> <<"a">>]

V2 == [command |-> "v2", args |-> <<>>]

E1 == [command |-> "e1", args |-> <<>>]

\* Contents of the collection's .wr.toml.
CollectionConfigs ==
    [verification : {<<>>, <<V1, V2>>}, skip_build : BOOLEAN]

\* Contents of an exercise's .wr.toml: no file, a file that does not parse, a
\* file without verification steps, a file with one.
ExerciseConfigs ==
    { [file |-> "none", verification |-> <<>>],
      [file |-> "bad", verification |-> <<>>],
      [file |-> "ok", verification |-> <<>>],
      [file |-> "ok", verification |-> <<E1>>] }

\* ExerciseDefinition::exists: the exercise's folder is on disk.
exists(dsk, d) == Key(d) \in dsk

\* ExerciseCollection::close: the exercise's row is deleted.
close(st, d) == [k \in DOMAIN st \ {Key(d)} |-> st[k]]

\* ExerciseDefinition::config: Ok(None) without a file in the exercise's
\* folder, else what the file holds.
config(dsk, xc, d) ==
    IF Key(d) \in dsk THEN xc ELSE [file |-> "none", verification |-> <<>>]

\* verify: the exercise's own steps take the place of the collection's when
\* the exercise has a configuration.
effective_verification(c, verification) ==
    IF c.file = "none" THEN verification ELSE c.verification

\* The command line of `cargo build` (the manifest path and the colour, which
\* are the same for all the commands of a run, are left out).
build_command(verbose) ==
    <<"cargo", "build", "--all-targets">> \o (IF verbose THEN <<>> ELSE <<"-q">>)

\* The command line of the default verification, `cargo test`.
test_command(verbose) ==
    <<"cargo", "test">> \o (IF verbose THEN <<>> ELSE <<"-q">>)

\* _verify: the verification commands, `cargo test` when none is configured.
verification_commands(verification, verbose) ==
    IF verification = <<>>
    THEN <<test_command(verbose)>>
    ELSE [i \in 1..Len(verification) |->
            <<verification[i].command>> \o verification[i].args]

\* _verify: the commands of a run in the order they are executed.
pipeline(skip_build, verification, verbose) ==
    (IF skip_build THEN <<>> ELSE <<build_command(verbose)>>)
        \o verification_commands(verification, verbose)

\* _verify that looks only at the status of the last command (a mutant).
last_status_only(status, n, total) ==
    IF n < total THEN "continue"
    ELSE IF status # "zero" THEN "failure"
    ELSE "success"

\* _verify after a command has exited with `status`, `n` commands executed out
\* of `total`: "failure", "success" or "continue".
after_command(status, n, total) ==
    IF status # "zero" THEN "failure"
    ELSE IF n = total THEN "success"
    ELSE "continue"

\* Command::output() that gives a command that cannot be spawned a non-zero
\* exit status (a mutant).
output_unchecked(status) ==
    IF status = "zero" THEN "zero" ELSE "nonzero"

\* cmd.output().expect(..): the exit status of the command, or the panic of
\* expect when the command cannot be spawned.
output(status) ==
    IF status = "nospawn" THEN "panic" ELSE status

\* verify that records a Failure and leaves a Success unrecorded (a mutant).
record_failure_only(st, d, success) ==
    IF success THEN st ELSE mark_as_unsolved(st, d)

\* verify that records a Success and leaves a Failure unrecorded (a mutant).
record_success_only(st, d, success) ==
    IF success THEN mark_as_solved(st, d) ELSE st

\* verify: the table after the outcome is recorded.
record_outcome(st, d, success) ==
    IF success THEN mark_as_solved(st, d) ELSE mark_as_unsolved(st, d)

\* A caller of verify that goes on after a Failure (a mutant).
on_outcome_ignored(success) == "continue"

\* The callers of verify in a default run: a Failure ends seek_the_path and
\* the process with std::process::exit(1), a Success lets the caller go on.
on_outcome(success) == IF success THEN "continue" ELSE "exit1"

\* seek_the_path that skips a solved exercise even with --recheck (a mutant).
skips_solved(solved, recheck) == solved

\* seek_the_path: a solved exercise is skipped unless --recheck is given.
skips(solved, recheck) == solved /\ ~recheck

\* A loop that takes the opened exercises from the last one (a mutant).
iter_next_back(q) ==
    { o \in q : \A e \in q : cmp(o.definition, e.definition) >= 0 }

\* The element a `for` loop over a BTreeSet<OpenedExercise> takes next.
iter_next(q) ==
    { o \in q : \A e \in q : cmp(o.definition, e.definition) <= 0 }

\* str::parse::<u16>: the value of a string of digits, None otherwise.
RECURSIVE DigitsValue(_)
DigitsValue(s) ==
    IF s = <<>> THEN 0
    ELSE 10 * DigitsValue(SubSeq(s, 1, Len(s) - 1)) + DigitVal(s[Len(s)])

parse_u16(s) ==
    IF s # <<>> /\ (\A i \in 1..Len(s) : IsDigit(s[i])) /\ DigitsValue(s) < 65536
    THEN {DigitsValue(s)}
    ELSE {}

\* Selector::matches, for the selector Selector::new(s) builds.
selector_matches(s, name, number) ==
    IF parse_u16(s) # {} THEN parse_u16(s) = {number} ELSE s = name

\* `wr open`: the exercise the two selectors find, if any.
find_selected(ex, chapter_arg, exercise_arg) ==
    First({ k \in ex : /\ selector_matches(chapter_arg, chapter(k), k.chapter_number)
                       /\ selector_matches(exercise_arg, exercise(k), k.number) })

\* The values of --chapter and --exercise.
ChapterArgs == { <<"1">>, <<"2">>, <<"0", "1", "_", "b">> }

ExerciseArgs == { <<"0">>, <<"1">>, <<"0", "0", "_", "x">> }

\* A current directory that is no folder of the exercises directory.
Elsewhere == << <<>>, <<>> >>

\* `wr check`: find() canonicalizes the folder of each exercise in turn until
\* one is the current directory; a folder that is not on disk panics.
\* [found, panic].
find_current(ex, dsk, cwd) ==
    LET stop == First({ k \in ex : Key(k) \notin dsk \/ Key(k) = cwd })
    IN  IF stop = {} THEN [found |-> {}, panic |-> FALSE]
        ELSE IF \E k \in stop : Key(k) \notin dsk
             THEN [found |-> {}, panic |-> TRUE]
             ELSE [found |-> stop, panic |-> FALSE]

\* A process starts.
Fresh(a) ==
    /\ pc = "idle"
    /\ args' = a
    /\ exercises' \in Discover(disk)

\* The process ends.
Ends(status) ==
    /\ pc' = "done"
    /\ exit' = status

\* verify(d) is entered from `from`: the configuration of the exercise is
\* read and the commands of the run are laid out.
BeginVerify(d, from, st, history, verbose) ==
    LET c == config(disk, excfg, d)
    IN  /\ cur' = {d}
        /\ ret' = from
        /\ ran' = <<>>
        /\ outcome' = {}
        /\ IF c.file = "bad"
           THEN /\ plan' = <<>>
                /\ runs' = history
                /\ Ends("error")
           ELSE /\ plan' = pipeline(cfg.skip_build,
                                    effective_verification(c, cfg.verification),
                                    verbose)
                /\ runs' = Append(history,
                                  [def |-> d, from |-> from,
                                   before |-> IF Key(d) \in DOMAIN st
                                              THEN {st[Key(d)]} ELSE {},
                                   outcome |-> {}])
                /\ pc' = "verify"
                /\ exit' = ""

\* `wr open --chapter c --exercise e`
StartOpen(chapter_arg, exercise_arg) ==
    /\ Fresh([command |-> "open", recheck |-> FALSE, keep_going |-> FALSE,
              verbose |-> FALSE])
    /\ LET found == find_selected(exercises', chapter_arg, exercise_arg)
       IN  IF found = {}
           THEN /\ store' = store
                /\ Ends("error")
           ELSE LET r == open(exercises', store, CHOOSE k \in found : TRUE)
                IN  /\ store' = r.store
                    /\ Ends(IF r.ok THEN "ok" ELSE "error")
    /\ queue' = {} /\ cur' = {} /\ ret' = "" /\ plan' = <<>> /\ ran' = <<>>
    /\ outcome' = {} /\ runs' = <<>>
    /\ UNCHANGED <<disk, cfg, excfg, callVars>>
    /\ UNCHANGED teeVars

\* `wr check` from the directory cwd
StartCheck(cwd, verbose) ==
    /\ Fresh([command |-> "check", recheck |-> FALSE, keep_going |-> FALSE,
              verbose |-> verbose])
    /\ LET f == find_current(exercises', disk, cwd)
       IN  IF f.found = {}
           THEN /\ Ends(IF f.panic THEN "panic" ELSE "error")
                /\ cur' = {} /\ ret' = "" /\ plan' = <<>> /\ ran' = <<>>
                /\ outcome' = {} /\ runs' = <<>>
           ELSE BeginVerify(CHOOSE k \in f.found : TRUE, "check", store, <<>>,
                            verbose)
    /\ queue' = {}
    /\ UNCHANGED <<disk, cfg, excfg, store, callVars>>
    /\ UNCHANGED teeVars

\* `wr`, with its flags: seek_the_path reads the opened exercises.
StartDefault(recheck, keep_going, verbose) ==
    /\ Fresh([command |-> "", recheck |-> recheck, keep_going |-> keep_going,
              verbose |-> verbose])
    /\ queue' \in opened_exercises(store)
    /\ pc' = "seek"
    /\ exit' = ""
    /\ cur' = {} /\ ret' = "" /\ plan' = <<>> /\ ran' = <<>>
    /\ outcome' = {} /\ runs' = <<>>
    /\ UNCHANGED <<disk, cfg, excfg, store, callVars>>
    /\ UNCHANGED teeVars

\* seek_the_path: one turn of the loop over the opened exercises, or its end.
Seek ==
    /\ pc = "seek"
    /\ IF queue = {}
       THEN /\ pc' = "loop"
            /\ UNCHANGED <<store, queue, cur, ret, plan, ran, outcome, runs, exit>>
       ELSE \E o \in iter_next(queue) :
                /\ queue' = queue \ {o}
                /\ IF ~exists(disk, o.definition)
                   THEN /\ store' = close(store, o.definition)
                        /\ UNCHANGED <<pc, cur, ret, plan, ran, outcome, runs, exit>>
                   ELSE IF skips(o.solved, args.recheck)
                   THEN UNCHANGED <<store, pc, cur, ret, plan, ran, outcome, runs,
                                    exit>>
                   ELSE /\ BeginVerify(o.definition, "seek", store, runs, args.verbose)
                        /\ store' = store
    /\ UNCHANGED <<disk, cfg, excfg, exercises, callVars, args>>
    /\ UNCHANGED teeVars

\* _verify: the next command of the run is executed and exits with `status`,
\* or cannot be spawned.
RunCommand(status) ==
    /\ pc = "verify"
    /\ LET c == plan[Len(ran) + 1]
           out == output(status)
           step == after_command(out, Len(ran) + 1, Len(plan))
       IN  /\ ran' = Append(ran, [cmd |-> c, status |-> status])
           /\ IF out = "panic"
              THEN /\ Ends("panic")
                   /\ outcome' = outcome
              ELSE /\ exit' = exit
                   /\ pc' = IF step = "continue" THEN "verify" ELSE "persist"
                   /\ outcome' =
                        IF step = "failure"
                        THEN {[success |-> FALSE, command |-> c]}
                        ELSE IF step = "success"
                        THEN {[success |-> TRUE, command |-> <<>>]}
                        ELSE outcome
    /\ UNCHANGED <<collVars, callVars, args, queue, cur, ret, plan, runs>>
    /\ UNCHANGED teeVars

\* verify: the outcome is recorded in the table, and the caller goes on.
Persist ==
    /\ pc = "persist"
    /\ \E d \in cur, o \in outcome :
           /\ store' = record_outcome(store, d, o.success)
           /\ runs' = [runs EXCEPT ![Len(runs)].outcome = outcome]
           /\ IF ret = "check" THEN Ends("ok")
              ELSE IF on_outcome(o.success) = "exit1" THEN Ends("exit1")
              ELSE pc' = ret /\ exit' = exit
    /\ UNCHANGED <<disk, cfg, excfg, exercises, callVars, args, queue, cur, ret,
                   plan, ran, outcome>>
    /\ UNCHANGED teeVars

\* main: one turn of the loop that opens the next exercise, where `yes` is
\* the answer to the prompt.
Loop(yes) ==
    /\ pc = "loop"
    /\ \E n \in {next(exercises, store)}, r \in {open_next(exercises, store)} :
           IF n = {}
           THEN /\ Ends("ok")
                /\ UNCHANGED <<store, cur, ret, plan, ran, outcome, runs>>
           ELSE IF args.keep_going
           THEN IF ~r.ok
                THEN /\ Ends("panic")
                     /\ UNCHANGED <<store, cur, ret, plan, ran, outcome, runs>>
                ELSE /\ store' = r.store
                     /\ \E d \in r.val :
                           BeginVerify(d, "loop", r.store, runs, args.verbose)
           ELSE /\ store' = IF yes THEN r.store ELSE store
                /\ Ends(IF yes /\ ~r.ok THEN "panic" ELSE "ok")
                /\ UNCHANGED <<cur, ret, plan, ran, outcome, runs>>
    /\ UNCHANGED <<disk, cfg, excfg, exercises, callVars, args, queue>>
    /\ UNCHANGED teeVars

\* The process has ended: nothing of it is left but the table.
Exit ==
    /\ pc = "done"
    /\ pc' = "idle"
    /\ args' = [command |-> "", recheck |-> FALSE, keep_going |-> FALSE,
                verbose |-> FALSE]
    /\ queue' = {} /\ cur' = {} /\ ret' = "" /\ plan' = <<>> /\ ran' = <<>>
    /\ outcome' = {} /\ runs' = <<>> /\ exit' = ""
    /\ UNCHANGED <<collVars, callVars>>
    /\ UNCHANGED teeVars

NextMain ==
    \/ \E c \in ChapterArgs, e \in ExerciseArgs : StartOpen(c, e)
    \/ \E cwd \in disk \cup {Elsewhere}, v \in BOOLEAN : StartCheck(cwd, v)
    \/ \E r, k, v \in BOOLEAN : StartDefault(r, k, v)
    \/ Seek
    \/ \E status \in {"zero", "nonzero", "nospawn"} : RunCommand(status)
    \/ Persist
    \/ \E yes \in BOOLEAN : Loop(yes)
    \/ Exit

\* The tool over a directory tree, with the configuration files as they are
\* found; the table starts empty.
InitRun ==
    /\ disk \in Disks
    /\ cfg \in { c \in CollectionConfigs : c.verification = <<>> }
    /\ excfg = [file |-> "none", verification |-> <<>>]
    /\ exercises \in Discover(disk)
    /\ store = EmptyStore
    /\ NoCall
    /\ MainIdle
    /\ TeeIdle

SpecRun == InitRun /\ [][NextMain]_vars

\* The tool over a directory tree with one entry, with every combination of
\* the two configuration files.
InitPipeline ==
    /\ disk \in { {p} : p \in DiskPairs }
    /\ cfg \in CollectionConfigs
    /\ excfg \in ExerciseConfigs
    /\ exercises \in Discover(disk)
    /\ store = EmptyStore
    /\ NoCall
    /\ MainIdle
    /\ TeeIdle

SpecPipeline == InitPipeline /\ [][NextMain]_vars

\* The pairs of DiskPairs with well-formed names and distinct numbers.
CleanPairs ==
    { << <<"0", "1", "_", "a">>, <<"0", "0", "_", "x">> >>,
      << <<"0", "1", "_", "a">>, <<"0", "1", "_", "x">> >>,
      << <<"0", "2", "_", "a">>, <<"0", "0", "_", "x">> >> }

\* Between two invocations the folder of an exercise is removed from disk.
RemoveFolder(p) ==
    /\ pc = "idle"
    /\ p \in disk
    /\ disk' = disk \ {p}
    /\ UNCHANGED <<cfg, excfg, exercises, store, callVars, mainVars>>
    /\ UNCHANGED teeVars

NextSeek ==
    \/ NextMain
    \/ \E p \in CleanPairs : RemoveFolder(p)

\* The tool over a directory tree of well-formed names with distinct numbers,
\* from which folders disappear.
InitSeek ==
    /\ disk \in { d \in SUBSET CleanPairs : Cardinality(d) <= MaxEntries }
    /\ cfg \in { c \in CollectionConfigs : c.verification = <<>> }
    /\ excfg = [file |-> "none", verification |-> <<>>]
    /\ exercises \in Discover(disk)
    /\ store = EmptyStore
    /\ NoCall
    /\ MainIdle
    /\ TeeIdle

SpecSeek == InitSeek /\ [][NextSeek]_vars

\* The tables a default run may find: rows, solved or not, of exercises that
\* were opened by earlier invocations, their folder still on disk or not.
Tables ==
    UNION { [K -> BOOLEAN] : K \in SUBSET CleanPairs }

\* One step of a default run with --keep-going that has started.
KeepGoingStep ==
    \/ Seek
    \/ \E status \in {"zero", "nonzero", "nospawn"} : RunCommand(status)
    \/ Persist
    \/ \E yes \in BOOLEAN : Loop(yes)

NextLive ==
    \/ \E r, v \in BOOLEAN : StartDefault(r, TRUE, v)
    \/ KeepGoingStep

\* `wr --keep-going` run once over a directory tree of well-formed names with
\* distinct numbers and a table left by earlier invocations.
InitLive ==
    /\ disk \in { d \in SUBSET CleanPairs : Cardinality(d) <= MaxEntries }
    /\ cfg \in { c \in CollectionConfigs : c.verification = <<>> }
    /\ excfg = [file |-> "none", verification |-> <<>>]
    /\ exercises \in Discover(disk)
    /\ store \in Tables
    /\ NoCall
    /\ MainIdle
    /\ TeeIdle

\* main is sequential and every external command ends: once the process has
\* started, its next step is eventually taken.
SpecLive == InitLive /\ [][NextLive]_vars /\ WF_vars(KeepGoingStep)

(***************************************************************************)
(* ExerciseDefinition::new and Ord::cmp, called on their own.              *)
(***************************************************************************)
\* The directory names ExerciseDefinition::new is called with: well-formed
\* names, names with characters before the digits or after the word
\* characters, and names without the two digits or without a name.
Names ==
    { <<"0", "1", "_", "a">>,
      <<"0", "1", "_", "b">>,
      <<"0", "2", "_", "a">>,
      <<"0", "0", "_", "x">>,
      <<"1", "0", "_", "x">>,
      <<"x", "0", "1", "_", "x">>,
      <<"0", "0", "1", "_", "x">>,
      <<"0", "1", "_", "x", "-">>,
      <<"y">>,
      <<"1", "_", "x">>,
      <<"0", "1", "_">> }

\* The definitions ExerciseDefinition::new builds from these names.
NamedDefinitions ==
    UNION { NewDefinition(c, e) : <<c, e>> \in Names \X Names }

\* ExerciseDefinition::new(c, e) is called.
NewCall(c, e) ==
    LET r == NewDefinition(c, e)
    IN  /\ last' = [op |-> "definition", arg |-> {<<c, e>>}, ok |-> r # {},
                    err |-> IF r = {} THEN "Failed to parse" ELSE "", val |-> r]
        /\ UNCHANGED <<collVars, returned, mainVars>>
        /\ UNCHANGED teeVars

\* a.cmp(&b) is called.
Compare(a, b) ==
    /\ last' = [op |-> "cmp", arg |-> {<<a, b>>}, ok |-> TRUE, err |-> "",
                val |-> {cmp(a, b)}]
    /\ UNCHANGED <<collVars, returned, mainVars>>
    /\ UNCHANGED teeVars

NextNames ==
    \/ \E c \in Names, e \in Names : NewCall(c, e)
    \/ \E a \in NamedDefinitions, b \in NamedDefinitions : Compare(a, b)

InitNames ==
    /\ disk = {}
    /\ cfg = [verification |-> <<>>, skip_build |-> FALSE]
    /\ excfg = [file |-> "none", verification |-> <<>>]
    /\ exercises \in Discover(disk)
    /\ store = EmptyStore
    /\ NoCall
    /\ MainIdle
    /\ TeeIdle

SpecNames == InitNames /\ [][NextNames]_vars

(***************************************************************************)
(* run_and_capture (src/src/tee_helper.rs): a child process that writes to *)
(* two pipes, a reader thread per pipe that forwards and captures what it  *)
(* reads, and the parent that waits for the child and joins the threads.   *)
(* A byte is the position of its write in the child's program, so that two *)
(* bytes are never the same.                                               *)
(***************************************************************************)
\* The exit codes of a child.
ExitCodes == {0, 1}

\* The programs of a child: the stream of each of its writes, in order.
Scripts ==
    UNION { [1..n -> Streams] : n \in 0..MaxWrites }

\* The writes of the program p: [stream, byte].
Writes(p) == [i \in 1..Len(p) |-> [stream |-> p[i], byte |-> i]]

\* A pipe of bounded capacity accepts a byte when it is not full.
can_write(pp) == Len(pp) < PipeCap

\* The numbers of bytes a read into a buffer of ChunkSize bytes may return
\* when the pipe holds pp: at least one, at most what the pipe holds.
read_sizes(pp) ==
    { n \in 1..ChunkSize : n <= Len(pp) }

\* Readers that drain stdout to its end before they read stderr (a mutant).
reader_after_stdout(s, rd) == s = "out" \/ rd["out"].pc = "done"

\* Each reader is a thread of its own: it runs whatever the other one does.
reader_runs(s, rd) == TRUE

\* A buffer that keeps the last chunk only (a mutant).
keep_last_chunk(buf, chunk) == chunk

\* Vec::extend_from_slice
extend_from_slice(buf, chunk) == buf \o chunk

\* The child writes the next byte of its program; it blocks while the pipe of
\* that stream is full.
ChildWrite ==
    /\ child.state = "running"
    /\ script # <<>>
    /\ LET w == Head(script)
       IN  /\ can_write(pipe[w.stream])
           /\ pipe' = [pipe EXCEPT ![w.stream] = Append(@, w.byte)]
           /\ written' = [written EXCEPT ![w.stream] = Append(@, w.byte)]
    /\ script' = Tail(script)
    /\ UNCHANGED <<child, reader, forwarded, captured, parent, result>>
    /\ UNCHANGED <<collVars, callVars, mainVars>>

\* The child exits at the end of its program with its exit code: the write ends
\* of its pipes are closed.
ChildExit ==
    /\ child.state = "running"
    /\ script = <<>>
    /\ child' = [child EXCEPT !.state = "exited"]
    /\ UNCHANGED <<script, written, pipe, reader, forwarded, captured, parent,
                   result>>
    /\ UNCHANGED <<collVars, callVars, mainVars>>

\* child_stdout.read(&mut buf) returns n > 0 bytes.
Read(s, n) ==
    /\ reader[s].pc = "read"
    /\ reader_runs(s, reader)
    /\ n \in read_sizes(pipe[s])
    /\ reader' = [reader EXCEPT ![s] = [pc |-> "write",
                                        chunk |-> SubSeq(pipe[s], 1, n)]]
    /\ pipe' = [pipe EXCEPT ![s] = SubSeq(@, n + 1, Len(@))]
    /\ UNCHANGED <<script, child, written, forwarded, captured, parent, result>>
    /\ UNCHANGED <<collVars, callVars, mainVars>>

\* read returns 0, the end of the stream: the pipe is empty and its write end
\* is closed. The loop breaks and the thread ends.
Eof(s) ==
    /\ reader[s].pc = "read"
    /\ reader_runs(s, reader)
    /\ pipe[s] = <<>>
    /\ child.state = "exited"
    /\ reader' = [reader EXCEPT ![s] = [pc |-> "done", chunk |-> <<>>]]
    /\ UNCHANGED <<script, child, written, pipe, forwarded, captured, parent,
                   result>>
    /\ UNCHANGED <<collVars, callVars, mainVars>>

\* out.write_all(chunk).ok(); out.flush().ok(): the chunk is written to the
\* parent's stream, or the write fails after k bytes and the error is dropped.
Forward(s, k) ==
    /\ reader[s].pc = "write"
    /\ k \in 0..Len(reader[s].chunk)
    /\ forwarded' = [forwarded EXCEPT ![s] = @ \o SubSeq(reader[s].chunk, 1, k)]
    /\ reader' = [reader EXCEPT ![s].pc = "extend"]
    /\ UNCHANGED <<script, child, written, pipe, captured, parent, result>>
    /\ UNCHANGED <<collVars, callVars, mainVars>>

\* out_clone.lock().unwrap().extend_from_slice(chunk)
Extend(s) ==
    /\ reader[s].pc = "extend"
    /\ captured' = [captured EXCEPT ![s] = extend_from_slice(@, reader[s].chunk)]
    /\ reader' = [reader EXCEPT ![s] = [pc |-> "read", chunk |-> <<>>]]
    /\ UNCHANGED <<script, child, written, pipe, forwarded, parent, result>>
    /\ UNCHANGED <<collVars, callVars, mainVars>>

\* child.wait() returns once the child has exited.
Wait ==
    /\ parent = "wait"
    /\ child.state = "exited"
    /\ parent' = "join_out"
    /\ UNCHANGED <<script, child, written, pipe, reader, forwarded, captured,
                   result>>
    /\ UNCHANGED <<collVars, callVars, mainVars>>

\* out_handle.join() returns once the stdout thread has ended.
JoinOut ==
    /\ parent = "join_out"
    /\ reader["out"].pc = "done"
    /\ parent' = "join_err"
    /\ UNCHANGED <<script, child, written, pipe, reader, forwarded, captured,
                   result>>
    /\ UNCHANGED <<collVars, callVars, mainVars>>

\* err_handle.join() returns once the stderr thread has ended, and
\* run_and_capture returns the two buffers and the status.
JoinErr ==
    /\ parent = "join_err"
    /\ reader["err"].pc = "done"
    /\ parent' = "returned"
    /\ result' = {[stdout |-> captured["out"], stderr |-> captured["err"],
                   status |-> child.code]}
    /\ UNCHANGED <<script, child, written, pipe, reader, forwarded, captured>>
    /\ UNCHANGED <<collVars, callVars, mainVars>>

NextTee ==
    \/ ChildWrite
    \/ ChildExit
    \/ \E s \in Streams, n \in 1..ChunkSize : Read(s, n)
    \/ \E s \in Streams : Eof(s)
    \/ \E s \in Streams, k \in 0..ChunkSize : Forward(s, k)
    \/ \E s \in Streams : Extend(s)
    \/ Wait
    \/ JoinOut
    \/ JoinErr

\* run_and_capture after the child is spawned and the two threads are started.
InitTee ==
    /\ disk = {}
    /\ cfg = [verification |-> <<>>, skip_build |-> FALSE]
    /\ excfg = [file |-> "none", verification |-> <<>>]
    /\ exercises \in Discover(disk)
    /\ store = EmptyStore
    /\ NoCall
    /\ MainIdle
    /\ script \in { Writes(p) : p \in Scripts }
    /\ child \in { [state |-> "running", code |-> c] : c \in ExitCodes }
    /\ written = [s \in Streams |-> <<>>]
    /\ pipe = [s \in Streams |-> <<>>]
    /\ reader = [s \in Streams |-> [pc |-> "read", chunk |-> <<>>]]
    /\ forwarded = [s \in Streams |-> <<>>]
    /\ captured = [s \in Streams |-> <<>>]
    /\ parent = "wait"
    /\ result = {}

\* The child, the two threads and the parent are each scheduled: a step that
\* stays possible is eventually taken.
SpecTee == InitTee /\ [][NextTee]_vars /\ WF_vars(NextTee)

(***************************************************************************)
(* Properties of the collection's operations.                              *)
(***************************************************************************)
\* a comes before b in the (chapter_number, exercise_number) order.
Before(a, b) ==
    \/ a.chapter_number < b.chapter_number
    \/ a.chapter_number = b.chapter_number /\ a.number < b.number

\* The definitions of the discovered set that have no Progress Record.
WithoutRecord == { d \in exercises : Key(d) \notin DOMAIN store }

\* C1: in every state, next() is the smallest, in the (chapter_number,
\* exercise_number) order, of the discovered definitions that have no Progress
\* Record, and None exactly when every discovered definition has one.
C1_NextIsFirstWithoutRecord ==
    next(exercises, store) =
        { d \in WithoutRecord : \A e \in WithoutRecord : d = e \/ Before(d, e) }

\* C2: open(def) of a discovered def that already has a Progress Record
\* succeeds and leaves the table as it was: one record for def, its solved flag
\* unchanged.
C2_OpenIsIdempotent ==
    [][\A d \in exercises :
          (last'.op = "open" /\ last'.arg = {d} /\ Key(d) \in DOMAIN store)
              => (last'.ok /\ DOMAIN store' = DOMAIN store
                   /\ store'[Key(d)] = store[Key(d)] /\ store' = store)]_vars

\* C2, witness: open(def) has succeeded on a discovered def whose record is
\* solved, so the record existed before the call.
C2_Witness ==
    /\ last.op = "open"
    /\ last.ok
    /\ \E d \in exercises : last.arg = {d} /\ Key(d) \in DOMAIN store /\ store[Key(d)]

\* C3: open(def) fails for every def that is not an element of the discovered
\* set (equality over the four fields), and the failed call leaves the table
\* unchanged.
C3_OpenFailsOutsideDiscovered ==
    [][\A d \in Definitions :
          (last'.op = "open" /\ last'.arg = {d} /\ d \notin exercises)
              => (~last'.ok /\ store' = store)]_vars

C5_OpenNextFailsWhenNoneLeft ==
    [][(last'.op = "open_next" /\ next(exercises, store) = {})
          => (~last'.ok /\ last'.err = "no more" /\ last'.val = {}
               /\ store' = store)]_vars

\* C5, witness: open_next() has failed on a collection that is not empty, all
\* of it opened and some of it solved.
C5_Witness ==
    /\ last.op = "open_next"
    /\ ~last.ok
    /\ last.err = "no more"
    /\ exercises # {}
    /\ \A d \in exercises : Key(d) \in DOMAIN store
    /\ \E k \in DOMAIN store : store[k]

Succeeded(i) == \E o \in runs[i].outcome : o.success

\* C7: once verify(def) has completed for an exercise that had a Progress
\* Record, the record's solved flag is true after Success and false after
\* Failure, whatever it was before the run.
C7_VerifyRecordsOutcome ==
    \A i \in 1..Len(runs) :
        (runs[i].outcome # {} /\ runs[i].before # {})
            => /\ Key(runs[i].def) \in DOMAIN store
               /\ store[Key(runs[i].def)] = Succeeded(i)

\* C7, witness: the run of an exercise that was recorded as solved has failed,
\* and the exercise is recorded as unsolved.
C7_Witness ==
    \E i \in 1..Len(runs) :
        /\ runs[i].before = {TRUE}
        /\ runs[i].outcome # {}
        /\ ~Succeeded(i)
        /\ store[Key(runs[i].def)] = FALSE

\* The commands a run is to execute: the build first unless it is skipped, then
\* the verification commands of the exercise in their configured order.
ExpectedCommands ==
    LET d == CHOOSE x \in cur : TRUE
        steps == verification_commands(
                     effective_verification(config(disk, excfg, d),
                                            cfg.verification),
                     args.verbose)
    IN  IF cfg.skip_build
        THEN steps
        ELSE <<build_command(args.verbose)>> \o steps

\* C8: the commands executed by a run are, in order and once each, the first
\* commands of the list above; every command but the last executed has exited
\* zero; the outcome is Failure exactly when the last executed command has
\* exited non-zero, and carries that command's line; it is Success exactly when
\* all the commands of the list have been executed and have exited zero.
C8_PipelineOrder ==
    (cur # {} /\ exit # "error") =>
        /\ Len(ran) <= Len(ExpectedCommands)
        /\ \A i \in 1..Len(ran) : ran[i].cmd = ExpectedCommands[i]
        /\ \A i \in 1..(Len(ran) - 1) : ran[i].status = "zero"
        /\ \A o \in outcome :
              /\ ran # <<>>
              /\ ~o.success => /\ ran[Len(ran)].status = "nonzero"
                               /\ o.command = ran[Len(ran)].cmd
              /\ o.success => /\ Len(ran) = Len(ExpectedCommands)
                              /\ ran[Len(ran)].status = "zero"
        /\ outcome = {} =>
              /\ pc \in {"verify", "done"}
              /\ pc = "verify" => /\ Len(ran) < Len(ExpectedCommands)
                                  /\ \A i \in 1..Len(ran) : ran[i].status = "zero"
              /\ pc = "done" => /\ ran # <<>>
                                /\ ran[Len(ran)].status = "nospawn"

\* C8, witness: a run of three commands has stopped at the second, which has
\* exited non-zero, with the Failure outcome.
C8_Witness ==
    /\ pc = "persist"
    /\ Len(plan) = 3
    /\ Len(ran) = 2
    /\ ran[1].status = "zero"
    /\ ran[2].status = "nonzero"
    /\ outcome = {[success |-> FALSE, command |-> ran[2].cmd]}

\* The verification steps the claim C9 gives an exercise.
ClaimedSteps ==
    LET d == CHOOSE x \in cur : TRUE
        c == config(disk, excfg, d)
    IN  IF c.file = "ok" /\ c.verification # <<>>
        THEN verification_commands(c.verification, args.verbose)
        ELSE IF cfg.verification # <<>>
        THEN verification_commands(cfg.verification, args.verbose)
        ELSE <<test_command(args.verbose)>>

\* C9: the verification commands of a run are those of the exercise's
\* configuration when it defines at least one step, otherwise those of the
\* collection's configuration when it defines at least one, and the default
\* test command only when neither defines any.
C9_EffectiveSteps ==
    (pc \in {"verify", "persist"}) =>
        plan = (IF cfg.skip_build THEN <<>> ELSE <<build_command(args.verbose)>>)
                   \o ClaimedSteps

\* C10: in a default run the verifications follow one another: when one has
\* begun, every earlier one of the run has completed and its outcome is in the
\* table; the commands executed are those of the last one begun; and the
\* exercises seek_the_path verifies come in ascending (chapter_number,
\* exercise_number) order, none after one that follows it in that order.
C10_OneAtATime ==
    (args.command = "" /\ runs # <<>>) =>
        /\ \A i \in 1..(Len(runs) - 1) :
              /\ runs[i].outcome # {}
              /\ Key(runs[i].def) \in DOMAIN store
              /\ store[Key(runs[i].def)] = Succeeded(i)
        /\ cur = {runs[Len(runs)].def}
        /\ \A i, j \in 1..Len(runs) :
              (i < j /\ runs[i].from = "seek" /\ runs[j].from = "seek")
                  => ~Before(runs[j].def, runs[i].def)

\* C10, witness: seek_the_path is executing a command for a second exercise,
\* after the run of a first one.
C10_Witness ==
    /\ args.command = ""
    /\ pc = "verify"
    /\ ran # <<>>
    /\ Len(runs) >= 2
    /\ runs[1].from = "seek"
    /\ runs[2].from = "seek"

\* The record of the exercise being verified, as it is in the table (Option).
Record(d) == IF Key(d) \in DOMAIN store THEN {store[Key(d)]} ELSE {}

\* C11: a command that exits non-zero ends the run with the Failure outcome and
\* no error, and once the outcome is recorded the exercise's record, if it has
\* one, is not solved. A command that cannot be spawned ends the process with
\* a panic: it is the last command executed, the run has no outcome, and the
\* exercise's record is as it was when the run began.
C11_ExitStatusAndSpawn ==
    (runs # <<>> /\ ran # <<>>) =>
        LET r == runs[Len(runs)]
            l == ran[Len(ran)]
        IN  /\ l.status = "nonzero" =>
                  /\ outcome = {[success |-> FALSE, command |-> l.cmd]}
                  /\ exit \in {"", "ok", "exit1"}
                  /\ pc \in {"persist", "done"}
                  /\ pc = "done" => /\ r.outcome = outcome
                                    /\ Record(r.def) \in {{}, {FALSE}}
            /\ l.status = "nospawn" =>
                  /\ outcome = {}
                  /\ r.outcome = {}
                  /\ pc = "done"
                  /\ exit = "panic"
                  /\ Record(r.def) = r.before
            /\ \A i \in 1..(Len(ran) - 1) : ran[i].status = "zero"

\* C11, witness: the second command of the run of a solved exercise could not
\* be spawned.
C11_Witness ==
    /\ runs # <<>>
    /\ Len(ran) = 2
    /\ ran[2].status = "nospawn"
    /\ runs[Len(runs)].before = {TRUE}
    /\ exit = "panic"

(***************************************************************************)
(* Properties of the definitions and of their order.                       *)
(***************************************************************************)
\* The whole of s is two digits, an underscore and one or more word characters.
WholeMatch(s) ==
    /\ Len(s) >= 4
    /\ IsDigit(s[1])
    /\ IsDigit(s[2])
    /\ s[3] = "_"
    /\ \A i \in 4..Len(s) : IsWord(s[i])

\* The definition the names c and e stand for when both are well-formed.
Named(c, e) ==
    [chapter_name   |-> SubSeq(c, 4, Len(c)),
     chapter_number |-> 10 * DigitVal(c[1]) + DigitVal(c[2]),
     name           |-> SubSeq(e, 4, Len(e)),
     number         |-> 10 * DigitVal(e[1]) + DigitVal(e[2])]

\* C12: ExerciseDefinition::new(c, e) succeeds exactly when the whole of c and
\* the whole of e are two digits, an underscore and word characters, and then
\* the numbers are the two digits and the names what follows the underscore.
C12_NewMatchesWholeName ==
    last.op = "definition" =>
        \A p \in last.arg :
            /\ last.ok <=> (WholeMatch(p[1]) /\ WholeMatch(p[2]))
            /\ last.ok => last.val = {Named(p[1], p[2])}

\* C13: the discovered set represents exactly the pairs on disk whose two
\* names are well-formed: each such pair by a definition whose chapter() and
\* exercise() are the two names, and no other pair by any definition.
C13_DiscoveryKeepsParsable ==
    /\ \A p \in disk :
          (WholeMatch(p[1]) /\ WholeMatch(p[2]))
              => \E d \in exercises : chapter(d) = p[1] /\ exercise(d) = p[2]
    /\ \A d \in exercises :
          \E p \in disk : /\ WholeMatch(p[1])
                           /\ WholeMatch(p[2])
                           /\ Key(d) = p

\* a's pair of numbers is lexicographically smaller than b's.
PairLess(a, b) ==
    \/ a.chapter_number < b.chapter_number
    \/ a.chapter_number = b.chapter_number /\ a.number < b.number

\* C14: a < b holds exactly when a's (chapter_number, number) is
\* lexicographically smaller than b's; no definition is smaller than itself;
\* a < b and b < c give a < c; and of two definitions that are not equal one is
\* smaller than the other.
C14_StrictTotalOrder ==
    last.op = "cmp" =>
        \A p \in last.arg :
            LET a == p[1]
                b == p[2]
            IN  /\ (last.val = {-1}) <=> PairLess(a, b)
                /\ cmp(a, a) # -1
                /\ \A c \in NamedDefinitions :
                      (cmp(a, b) = -1 /\ cmp(b, c) = -1) => cmp(a, c) = -1
                /\ a # b => (last.val = {-1} \/ cmp(b, a) = -1)

C16_MarkWithoutRecord ==
    [][/\ \A d \in Definitions :
             Key(d) \notin DOMAIN store
                 => /\ mark_as_solved(store, d) = store
                    /\ mark_as_unsolved(store, d) = store
       /\ \A d \in cur :
             (pc = "persist" /\ pc' # "persist" /\ Key(d) \notin DOMAIN store)
                 => /\ store' = store
                    /\ exit' \notin {"error", "panic"}]_vars

\* C16, witness: `wr check` has completed with Success in the folder of an
\* exercise that has no row, while another exercise has one.
C16_Witness ==
    /\ pc = "done"
    /\ exit = "ok"
    /\ Len(runs) = 1
    /\ runs[1].from = "check"
    /\ runs[1].before = {}
    /\ Succeeded(1)
    /\ store # EmptyStore
    /\ Key(runs[1].def) \notin DOMAIN store

\* C17: a mark_as_solved or mark_as_unsolved call on an exercise that has a
\* row leaves the flag of that row at the value of the call, true or false,
\* whatever the flag was before, and leaves the other rows as they were.
C17_LastMarkWins ==
    [][\A d \in Definitions :
          (last'.arg = {d} /\ Key(d) \in DOMAIN store)
              => /\ last'.op = "mark_as_solved"
                      => (last'.ok /\ store' = [store EXCEPT ![Key(d)] = TRUE])
                 /\ last'.op = "mark_as_unsolved"
                      => (last'.ok /\ store' = [store EXCEPT ![Key(d)] = FALSE])]_vars

\* C17, witness: mark_as_solved has been called on an exercise whose row is
\* solved, while the row of another exercise is not.
C17_Witness ==
    /\ last.op = "mark_as_solved"
    /\ \E d \in last.arg : Key(d) \in DOMAIN store /\ store[Key(d)]
    /\ \E k \in DOMAIN store : ~store[k]

(***************************************************************************)
(* Properties of the default run.                                          *)
(***************************************************************************)
\* A default run (no subcommand) is in progress.
InDefaultRun == args.command = "" /\ pc \notin {"idle", "done"}

\* verify is entered for the definition d by the step.
Begins(d) ==
    /\ cur' = {d}
    /\ ran' = <<>>
    /\ (pc' = "verify" /\ Len(runs') = Len(runs) + 1 /\ runs'[Len(runs')].def = d)
           \/ exit' = "error"

\* What a step of a default run does with the opened exercises, where
\* `concerned(d)` tells the opened exercises the statement is about:
\*  - seek_the_path takes the opened exercises in ascending order;
\*  - with --recheck each one is verified, solved or not; without it, one that
\*    is solved is not: no command is run for it and the table is unchanged;
\*  - after a Success seek_the_path goes on; after a Failure the process ends
\*    with the exit status 1 and nothing more is verified;
\*  - without --recheck, a row that is solved stays solved as long as the run
\*    lasts.
RecheckStep(concerned(_)) ==
    InDefaultRun =>
        /\ (pc = "seek" /\ queue' # queue) =>
              \E o \in queue :
                  /\ queue' = queue \ {o}
                  /\ \A e \in queue' : Before(o.definition, e.definition)
                  /\ concerned(o.definition) =>
                        /\ args.recheck => Begins(o.definition)
                        /\ (o.solved /\ ~args.recheck) =>
                              /\ UNCHANGED <<runs, ran, cur, store>>
                              /\ pc' = "seek"
        /\ (pc = "persist" /\ ret = "seek") =>
              \A o \in outcome :
                  IF o.success
                  THEN pc' = "seek" /\ queue' = queue
                  ELSE pc' = "done" /\ exit' = "exit1" /\ runs'[Len(runs')].outcome = outcome
        /\ ~args.recheck =>
              \A k \in DOMAIN store :
                  (store[k] /\ \A d \in RowDefinition(k) : concerned(d))
                      => (k \in DOMAIN store' /\ store'[k])

\* The folder of the exercise is on disk.
OnDisk(d) == exists(disk, d)

\* Any exercise.
EveryExercise(d) == TRUE

C19_OpensOnlyWhenAllSolved ==
    [][(args.command = "" /\ pc \notin {"idle", "done"}) =>
          /\ (DOMAIN store' \ DOMAIN store # {}) => \A k \in DOMAIN store : store[k]
          /\ \A o \in outcome :
                (pc = "persist" /\ ~o.success)
                    => /\ pc' = "done"
                       /\ exit' = "exit1"
                       /\ DOMAIN store' = DOMAIN store]_vars

\* C19, witness: a default run has verified an opened exercise with Success
\* and has then opened the next one, after the answer yes to the prompt.
C19_Witness ==
    /\ args.command = ""
    /\ ~args.keep_going
    /\ pc = "done"
    /\ exit = "ok"
    /\ runs # <<>>
    /\ \A i \in 1..Len(runs) : Succeeded(i)
    /\ \E k \in DOMAIN store : store[k]
    /\ \E k \in DOMAIN store : ~store[k]

\* A default run with --keep-going is in progress.
KeepGoingRun ==
    args.command = "" /\ args.keep_going /\ pc \notin {"idle", "done"}

\* The verifications of the run made from the loop that opens the next exercise.
LoopRuns == { i \in 1..Len(runs) : runs[i].from = "loop" }

\* What a default run with --keep-going looks like at any time:
\*  - an exercise is opened and verified from the loop only after every
\*    earlier verification of the run has passed;
\*  - the exercises the loop opens are discovered ones, in ascending order,
\*    each opened once, and the table never has more rows than there are
\*    discovered exercises once the loop has begun;
\*  - a run that ends with the exit status 1 ends at its first Failure, whose
\*    exercise has a row that is not solved;
\*  - a run that ends with success leaves every discovered exercise with a
\*    solved row, and nothing to open.
KeepGoingShape ==
    (args.command = "" /\ args.keep_going) =>
        /\ \A j \in LoopRuns : \A i \in 1..(j - 1) : Succeeded(i)
        /\ \A j \in LoopRuns :
              /\ runs[j].def \in exercises
              /\ Key(runs[j].def) \in DOMAIN store
              /\ runs[j].before = {FALSE}
        /\ \A i, j \in LoopRuns : i < j => Before(runs[i].def, runs[j].def)
        /\ (LoopRuns # {} \/ pc = "loop") =>
              Cardinality(DOMAIN store) <= Cardinality(exercises)
        /\ exit = "exit1" =>
              /\ runs # <<>>
              /\ ~Succeeded(Len(runs))
              /\ runs[Len(runs)].outcome # {}
              /\ \A i \in 1..(Len(runs) - 1) : Succeeded(i)
              /\ Record(runs[Len(runs)].def) = {FALSE}
        /\ exit = "ok" =>
              /\ \A d \in exercises : Record(d) = {TRUE}
              /\ next(exercises, store) = {}

Returned ==
    /\ parent = "returned"
    /\ child.state = "exited"
    /\ \A s \in Streams : reader[s].pc = "done"
    /\ result = {[stdout |-> captured["out"], stderr |-> captured["err"],
                  status |-> child.code]}

\* C21: run_and_capture never deadlocks. Whatever the child writes to its two
\* streams, in whatever order, through pipes of bounded capacity, once it
\* exits both readers reach the end of their stream, the wait for the child
\* returns and run_and_capture returns the child's exit status; and it returns
\* nothing before that.
C21_NoDeadlock ==
    /\ [](result # {} => Returned)
    /\ <>Returned

\* run_and_capture has returned after a child wrote more to one stream than
\* its pipe holds, and wrote to nothing else or to the other stream as well.
C21_Witness ==
    /\ Returned
    /\ \E s \in Streams : Len(written[s]) > PipeCap

\* a is b with some of its elements left out.
RECURSIVE IsSubsequence(_, _)
IsSubsequence(a, b) ==
    IF a = <<>> THEN TRUE
    ELSE IF b = <<>> THEN FALSE
    ELSE IF Head(a) = Head(b) THEN IsSubsequence(Tail(a), Tail(b))
    ELSE IsSubsequence(a, Tail(b))

CheckOutside(cwd) ==
    /\ \E v \in BOOLEAN : StartCheck(cwd, v)
    /\ \A k \in exercises' : Key(k) # cwd

\* C22: `wr check`, run from a directory that is not the directory of any
\* discovered exercise, fails with the error "The current directory is not an
\* exercise", runs no build or verification command and leaves the table as
\* it is.
C22_CheckOutsideFails ==
    [][\A cwd \in disk \cup {Elsewhere} :
          CheckOutside(cwd) =>
              /\ pc' = "done"
              /\ exit' = "error"
              /\ plan' = <<>>
              /\ ran' = <<>>
              /\ runs' = <<>>
              /\ store' = store]_vars

(***************************************************************************)
(* The frame of the collection's operations.                               *)
(***************************************************************************)
\* The keys of the exercise the last call was about: its argument, or the
\* definition open_next returned.
OwnKeys(call) == { Key(d) : d \in call.arg \cup call.val }

\* C23: open, open_next, mark_as_solved and mark_as_unsolved never delete a
\* row, and each changes at most the row of its own exercise: the set of keys
\* never shrinks, grows by at most one key per open or open_next and not at
\* all per mark, a new row is the one of the exercise of the call, and the
\* solved flag of every other row is unchanged.
C23_Frame ==
    [][/\ DOMAIN store \subseteq DOMAIN store'
       /\ DOMAIN store' \ DOMAIN store \subseteq OwnKeys(last')
       /\ Cardinality(DOMAIN store' \ DOMAIN store)
              <= (IF last'.op \in {"open", "open_next"} THEN 1 ELSE 0)
       /\ \A k \in DOMAIN store \ OwnKeys(last') : store'[k] = store[k]]_vars

\* C23, witness: mark_as_unsolved has been called on a solved exercise and
\* has reset its row, while another exercise has a row that is solved.
C23_Witness ==
    /\ last.op = "mark_as_unsolved"
    /\ \E d \in last.arg :
          /\ Record(d) = {FALSE}
          /\ \E k \in DOMAIN store \ {Key(d)} : store[k]

(***************************************************************************)
(* A default run stops at the first Failure.                               *)
(***************************************************************************)
\* The verifications of the run that returned Failure.
FailedRuns ==
    { i \in 1..Len(runs) : \E o \in runs[i].outcome : ~o.success }

\* The step records a Failure of the exercise being verified: of the table
\* only the row of that exercise may change, and the process ends with the
\* exit status 1.
FailureStops ==
    (pc = "persist" /\ \E o \in outcome : ~o.success) =>
        /\ DOMAIN store' = DOMAIN store
        /\ \A k \in DOMAIN store :
              store'[k] # store[k] => (~store'[k] /\ \E d \in cur : Key(d) = k)
        /\ FailedRuns' = {Len(runs)}
        /\ pc' = "done"
        /\ exit' = "exit1"

\* The step follows a Failure: nothing is verified and the table is unchanged.
NothingAfterFailure ==
    FailedRuns # {} =>
        /\ store' = store
        /\ runs' \in {runs, <<>>}
        /\ ran' \in {ran, <<>>}
        /\ pc' = "idle"

\* C25: in a default run, once the verification of an opened exercise returns
\* Failure, no opened exercise later in the order is verified in that run and
\* no other exercise's solved flag is changed: the failure is the last
\* verification of the run, which ends with the exit status 1.
C25_StopsAtFirstFailure ==
    /\ [](args.command = "" =>
             \A i \in FailedRuns :
                 i = Len(runs) /\ pc = "done" /\ exit = "exit1")
    /\ [][args.command = "" => (FailureStops /\ NothingAfterFailure)]_vars

\* C25, witness: a default run has ended with the exit status 1 on the Failure
\* of an exercise while a later opened exercise, recorded as solved, was still
\* to be looked at.
C25_Witness ==
    /\ args.command = ""
    /\ pc = "done"
    /\ exit = "exit1"
    /\ FailedRuns = {Len(runs)}
    /\ \E d \in cur : Record(d) = {FALSE}
    /\ \E o \in queue :
          /\ \A d \in cur : Before(d, o.definition)
          /\ Record(o.definition) = {TRUE}

C27_RowsAreDiscovered ==
    /\ \A k \in DOMAIN store :
          /\ RowDefinition(k) # {}
          /\ \E d \in exercises : chapter(d) = k[1] /\ exercise(d) = k[2]
    /\ \A T \in opened_exercises(store) :
          \A o \in T : o.definition \in exercises

====
